---- MODULE Spec2Model ----
(***************************************************************************)
(* World Anvil integration for Foundry VTT: the category / article         *)
(* synchronisation engine (module/framework.js and its earlier revision    *)
(* with the partition tree builder), the remote client (module/api.js)     *)
(* and the World Anvil browser with its bulk import.                       *)
(*                                                                         *)
(* JavaScript values are encoded with one type per field:                  *)
(*   - Folder / JournalEntry documents are named by a positive id taken    *)
(*     from one counter, so a smaller id means an earlier creation;        *)
(*   - a `folder` field holds -1 (undefined), 0 (null) or a folder id;     *)
(*   - a Category object is named by <<owner, id>>: the call that built    *)
(*     it (objects of two rebuilds that share an id stay distinct);        *)
(*   - a title is the rank of the string in localeCompare order;           *)
(*   - an article body / title revision is a number.                       *)
(* A handler runs atomically from one network or database round trip to    *)
(* the next (the event loop interleaves handlers only at those awaits).    *)
(***************************************************************************)
EXTENDS Integers, Sequences, FiniteSets, TLC

VARIABLES
  world,        \* anvil.world: 0 (null) or 1 (the cached World)
  cache,        \* cachedCategories: category id -> owner of the object stored
  heap,         \* Category objects: owner -> (category id -> object)
  folders,      \* game.folders (JournalEntry folders flagged world-anvil), in creation order
  journal,      \* game.journal, in creation order
  nextId,       \* the next document id
  listing,      \* World Anvil: the world's category listing
  artCat,       \* World Anvil: article id -> the category reference the article carries
  remote,       \* World Anvil: article id -> current revision
  proc,         \* the calls in flight
  bound,        \* history: article id -> entry ids returned by successful importArticle calls
  browser,      \* WorldAnvilBrowser: its cached tree and articles, and what it last rendered
  batch,        \* the browser's bulk import: the articles left, and history of the run
  returned,     \* history: category id -> folder values returned by getCategoryFolder calls
  idem,         \* history: the article the last call imported, when that call was a successful importArticle
  click,        \* history: the last click on a cross-link and what the handler did
  vis,          \* history: the last visibility command of the browser and the update it sent
  tree,         \* the category tree of the partition builder, and the listing it is built from
  fetch,        \* a _fetchMany call: its loop variables and the requests it made
  sec,          \* the secret flags of one article's entry, and what the last import wrote
  api,          \* the WorldAnvil client: its token, user and cached world, its request, its last call
  branch        \* the journal's buildCategoryBranch: the raw list and the calls on the stack

vars == <<world, cache, heap, folders, journal, nextId, listing, artCat, remote, proc,
          bound, browser, batch, returned, idem, click, vis, tree, fetch, sec, api, branch>>

engine == <<world, cache, heap, folders, journal, nextId, listing, artCat, remote, proc,
            bound, browser, batch, returned, idem, click, vis>>

----------------------------------------------------------------------------
(* Bounds of the model *)

MaxRevision == 2
MaxDocuments == 4

----------------------------------------------------------------------------
(* Values *)

UndefinedFolder == -1
NullFolder == 0
NoEntry == 0
PermissionNone == 0
PermissionObserver == 2
NoWorld == 0

ROOT == "root"
UNCATEGORIZED == "uncategorized"
UndefinedId == "undefined"
NoCategory == "none"

Calls == {1, 2}
Articles == {"a1", "a2", "a3"}

\* The articles imported one by one (a3 is only imported in bulk).
Single == {"a1", "a2"}

\* GET world/<id>/articles lists the articles in this order; their titles
\* collate in another one.
ArticleList == <<"a1", "a2", "a3">>
ArticleTitle == [a \in Articles |-> IF a = "a1" THEN 2 ELSE IF a = "a2" THEN 1 ELSE 3]

\* A reference to a Category object; the JavaScript value undefined is NoRef.
Ref(o, id) == [o |-> o, id |-> id]
NoRef == Ref(0, UndefinedId)

NoArticle == [id |-> "none", rev |-> 0, category |-> NoCategory]
NoOutcome == [status |-> "none", value |-> 0, err |-> "none"]
Ok(v) == [status |-> "ok", value |-> v, err |-> "none"]
Err(e) == [status |-> "error", value |-> 0, err |-> e]

Idle == [pc |-> "idle", op |-> "none", arg |-> "none", article |-> NoArticle,
         category |-> NoRef, stack |-> <<>>, target |-> 0, outcome |-> NoOutcome]

\* The category listings the remote world may hold (GET world/<id>/categories):
\* the scenario of the specification (Places > Towns), two root categories,
\* and a world without categories.
CategoryListings ==
  { << [id |-> "c1", title |-> 1, children |-> <<"c2">>],
       [id |-> "c2", title |-> 2, children |-> <<>>] >>,
    << [id |-> "c1", title |-> 2, children |-> <<>>],
       [id |-> "c2", title |-> 1, children |-> <<>>] >> }

\* The category reference an article carries: a listed category, none, or an
\* id the listing does not hold.
CategoryRefs == {"c1", "c2", NoCategory, "cX"}
ArticleCategories ==
  {f \in [Articles -> CategoryRefs] : f["a2"] \in {"c1", "c2"} /\ f["a3"] = "c2"}

----------------------------------------------------------------------------
(* The engine state a handler reads and writes, as one record *)

Engine == [world |-> world, cache |-> cache, heap |-> heap, folders |-> folders,
           journal |-> journal, nextId |-> nextId, proc |-> proc, browser |-> browser,
           returned |-> returned, vis |-> vis]

Commit(s) ==
  /\ world' = s.world
  /\ cache' = s.cache
  /\ heap' = s.heap
  /\ folders' = s.folders
  /\ journal' = s.journal
  /\ nextId' = s.nextId
  /\ proc' = s.proc
  /\ browser' = s.browser
  /\ returned' = s.returned
  /\ vis' = s.vis

Obj(s, r) == s.heap[r.o][r.id]
SetFolder(s, r, f) == [s EXCEPT !.heap[r.o][r.id].folder = f]
Finish(s, p, out) == [s EXCEPT !.proc[p].pc = "done", !.proc[p].outcome = out]

Min(S) == CHOOSE x \in S : \A y \in S : x <= y

\* Variants of the definitions below, each with one step of the code left out.
FindFolder_None(fs, id) == UndefinedFolder
FindEntry_None(js, a) == NoEntry

\* game.folders.find(f => f.getFlag("world-anvil", "categoryId") === id)
FindFolder(fs, id) ==
  LET hits == {i \in 1..Len(fs) : fs[i].categoryId = id}
  IN IF hits = {} THEN UndefinedFolder ELSE fs[Min(hits)].id

\* game.journal.find(e => e.getFlag("world-anvil", "articleId") === articleId)
FindEntry(js, a) ==
  LET hits == {i \in 1..Len(js) : js[i].articleId = a}
  IN IF hits = {} THEN NoEntry ELSE js[Min(hits)].id

\* categories.get(id): the object the map holds for id, or undefined
MapGet(s, id) == IF id \in DOMAIN s.cache THEN Ref(s.cache[id], id) ELSE NoRef

associateCategoryFolders(s) ==
  [s EXCEPT !.heap = [o \in DOMAIN s.heap |-> [id \in DOMAIN s.heap[o] |->
     IF id \in DOMAIN s.cache /\ s.cache[id] = o
     THEN [s.heap[o][id] EXCEPT !.folder =
             IF id = ROOT THEN NullFolder ELSE FindFolder(s.folders, id)]
     ELSE s.heap[o][id]]]]

----------------------------------------------------------------------------
(* Category map: framework.js, _getCategories *)

FreshCategory == [parent |-> UndefinedId, children |-> <<>>, folder |-> UndefinedFolder]

\* The root and uncategorized nodes set into the map before the remote request.
SetRootNodes(s, p) ==
  [s EXCEPT
     !.cache = [id \in DOMAIN s.cache \cup {ROOT, UNCATEGORIZED} |->
                  IF id \in {ROOT, UNCATEGORIZED} THEN p ELSE s.cache[id]],
     !.heap[p] = [id \in DOMAIN s.heap[p] \cup {ROOT, UNCATEGORIZED} |->
                  IF id = ROOT THEN [FreshCategory EXCEPT !.folder = NullFolder]
                  ELSE IF id = UNCATEGORIZED THEN FreshCategory
                  ELSE s.heap[p][id]]]

\* First loop: store every category of the response in the map.
StoreInMap(s, p, L) ==
  LET ids == {L[i].id : i \in 1..Len(L)}
  IN [s EXCEPT
        !.cache = [id \in DOMAIN s.cache \cup ids |-> IF id \in ids THEN p ELSE s.cache[id]],
        !.heap[p] = [id \in DOMAIN s.heap[p] \cup ids |->
                       IF id \in ids THEN FreshCategory ELSE s.heap[p][id]]]

\* Second loop, one category: c.children = c.childrenIds.map(id => { child =
\* categories.get(id); child.parent = c; return child }). An id the map does
\* not hold makes child undefined and the assignment throws a TypeError.
RECURSIVE LinkChildren(_, _, _, _)
LinkChildren(r, p, c, k) ==
  IF ~r.ok \/ k > Len(c.children) THEN r
  ELSE LET child == MapGet(r.s, c.children[k])
       IN IF child = NoRef THEN [r EXCEPT !.ok = FALSE]
          ELSE LinkChildren(
                 [r EXCEPT !.s.heap[child.o][child.id].parent = c.id,
                           !.s.heap[p][c.id].children = Append(@, child.id)],
                 p, c, k + 1)

RECURSIVE LinkAll(_, _, _, _)
LinkAll(r, p, L, i) ==
  IF ~r.ok \/ i > Len(L) THEN r
  ELSE LinkAll(LinkChildren(r, p, L[i], 1), p, L, i + 1)

\* Array.prototype.sort with (a, b) => a.title.localeCompare(b.title): a stable
\* sort on the title's collation rank.
RECURSIVE InsertByTitle(_, _, _)
InsertByTitle(sorted, x, title) ==
  IF sorted = <<>> THEN <<x>>
  ELSE IF title[x] < title[Head(sorted)] THEN <<x>> \o sorted
  ELSE <<Head(sorted)>> \o InsertByTitle(Tail(sorted), x, title)

RECURSIVE SortByTitle(_, _)
SortByTitle(seq, title) ==
  IF seq = <<>> THEN <<>>
  ELSE InsertByTitle(SortByTitle(SubSeq(seq, 1, Len(seq) - 1), title), seq[Len(seq)], title)

\* Third loop: the categories without parent become the root's children,
\* sorted by title; uncategorized is pushed last.
AttachToRoot(s, p, L) ==
  LET orphanAt == {i \in 1..Len(L) : s.heap[p][L[i].id].parent = UndefinedId}
      orphans == {L[i].id : i \in orphanAt}
      title == [id \in orphans |-> L[Min({i \in 1..Len(L) : L[i].id = id})].title]
      RECURSIVE InOrder(_)
      InOrder(i) == IF i > Len(L) THEN <<>>
                    ELSE (IF i \in orphanAt THEN <<L[i].id>> ELSE <<>>) \o InOrder(i + 1)
      rootChildren == SortByTitle(InOrder(1), title) \o <<UNCATEGORIZED>>
  IN [s EXCEPT !.heap[p] = [id \in DOMAIN s.heap[p] |->
        IF id = ROOT THEN [s.heap[p][id] EXCEPT !.children = rootChildren]
        ELSE IF id \in orphans \cup {UNCATEGORIZED} THEN [s.heap[p][id] EXCEPT !.parent = ROOT]
        ELSE s.heap[p][id]]]

\* The rebuild after the remote response: [s, ok], ok false when it threw.
BuildCategories(s, p, L) ==
  LET linked == LinkAll([s |-> StoreInMap(s, p, L), ok |-> TRUE], p, L, 1)
  IN IF linked.ok THEN [s |-> AttachToRoot(linked.s, p, L), ok |-> TRUE] ELSE linked

----------------------------------------------------------------------------
(* Folder provisioning: framework.js, getCategoryFolder *)

Record(s, id, f) == [s EXCEPT !.returned[id] = @ \cup {f}]

Chain_NoDescent(s, r) == IF Obj(s, r).folder # UndefinedFolder THEN <<>> ELSE <<r>>

\* The synchronous descent of getCategoryFolder(category): the calls that did
\* not return at once (category.folder === undefined), the topmost ancestor
\* first. A call on a parent is made when the parent's folder is falsy.
RECURSIVE Chain(_, _)
Chain(s, r) ==
  IF Obj(s, r).folder # UndefinedFolder THEN <<>>
  ELSE LET par == Obj(s, r).parent
       IN IF par # UndefinedId /\ Obj(s, Ref(r.o, par)).folder <= NullFolder
          THEN Chain(s, Ref(r.o, par)) \o <<r>>
          ELSE <<r>>

\* The calls of the descent that returned at once, with the value returned.
RECURSIVE RecordDescent(_, _)
RecordDescent(s, r) ==
  IF Obj(s, r).folder # UndefinedFolder THEN Record(s, r.id, Obj(s, r).folder)
  ELSE LET par == Obj(s, r).parent
       IN IF par # UndefinedId /\ Obj(s, Ref(r.o, par)).folder <= NullFolder
          THEN RecordDescent(s, Ref(r.o, par))
          ELSE s

ParentFolderId_None(s, r) == NullFolder

\* parent: category.parent?.folder?.id
ParentFolderId(s, r) ==
  LET par == Obj(s, r).parent
  IN IF par = UndefinedId THEN NullFolder
     ELSE IF Obj(s, Ref(r.o, par)).folder <= NullFolder THEN NullFolder
     ELSE Obj(s, Ref(r.o, par)).folder

\* What follows `await getCategoryFolder(...)` once the folder is known: the
\* API call returns it; _createNewEntry reads folder.id and sends the create.
AfterFolder(s, p) ==
  LET f == Obj(s, s.proc[p].category).folder
  IN IF s.proc[p].op = "folder" THEN Finish(s, p, Ok(f))
     ELSE IF f = NullFolder THEN Finish(s, p, Err("TypeError"))
     ELSE [s EXCEPT !.proc[p].pc = "createEntry", !.proc[p].target = f]

\* The pending calls, resumed: each looks the folder up in game.folders and
\* binds it, or sends Folder.create and waits.
RECURSIVE RunStack(_, _)
RunStack(s, p) ==
  IF s.proc[p].stack = <<>> THEN AfterFolder(s, p)
  ELSE LET top == Head(s.proc[p].stack)
           found == FindFolder(s.folders, top.id)
       IN IF found # UndefinedFolder
          THEN RunStack(Record([SetFolder(s, top, found)
                                  EXCEPT !.proc[p].stack = Tail(@)], top.id, found), p)
          ELSE [s EXCEPT !.proc[p].pc = "createFolder",
                         !.proc[p].target = ParentFolderId(s, top)]

getCategoryFolder(s, p, r) ==
  RunStack([RecordDescent(s, r) EXCEPT !.proc[p].stack = Chain(s, r)], p)

\* Folder.create has answered: the folder is in game.folders and bound.
FolderCreated(s, p) ==
  LET top == Head(s.proc[p].stack)
      folder == [id |-> s.nextId, categoryId |-> top.id, parent |-> s.proc[p].target]
      t == [SetFolder(s, top, folder.id) EXCEPT
              !.folders = Append(@, folder), !.nextId = @ + 1,
              !.proc[p].stack = Tail(@), !.proc[p].target = 0]
  IN RunStack(Record(t, top.id, folder.id), p)

----------------------------------------------------------------------------
(* Article import: framework.js, getCategories and importArticle *)

\* getContentTree once categories and articles are known: bind the folders,
\* file every article under its category (uncategorized when the map does not
\* hold the id), look its entry up, sort each category's articles by title.
Rendered(s, p) ==
  LET t == associateCategoryFolders(s)
      arts == t.browser.articles
      Category(a) == IF MapGet(t, arts[a]) # NoRef THEN arts[a] ELSE UNCATEGORIZED
      Shelf(c) == LET InCategory(a) == Category(a) = c
                  IN SortByTitle(SelectSeq(ArticleList, InCategory), ArticleTitle)
  IN Finish([t EXCEPT
       !.browser.shelf = [c \in DOMAIN @ |-> IF c \in DOMAIN t.cache THEN Shelf(c) ELSE <<>>],
       !.browser.entry = [a \in DOMAIN @ |-> FindEntry(t.journal, a)]], p, Ok(0))

\* _getArticles: the article list is requested once and kept.
_getArticles(s, p) ==
  IF DOMAIN s.browser.articles # {} THEN Rendered(s, p)
  ELSE [s EXCEPT !.proc[p].pc = "fetchArticles"]

\* anvil.getArticles has answered with the articles arts.
ArticlesFetched(s, p, arts) == Rendered([s EXCEPT !.browser.articles = arts], p)

\* What follows `await getCategories(...)`: the API call returns the map;
\* importArticle sends the article request; the browser keeps the tree and
\* goes on to the articles.
AfterCategories(s, p) ==
  IF s.proc[p].op = "categories" THEN Finish(s, p, Ok(0))
  ELSE IF s.proc[p].op = "render"
  THEN _getArticles([s EXCEPT !.browser.tree = MapGet(s, ROOT)], p)
  ELSE [s EXCEPT !.proc[p].pc = "fetchArticle"]

getCategories_NoCache(s, p) ==
  IF s.world = NoWorld THEN [s EXCEPT !.cache = <<>>, !.proc[p].pc = "fetchWorld"]
  ELSE [SetRootNodes([s EXCEPT !.cache = <<>>], p) EXCEPT !.proc[p].pc = "fetchCategories"]

\* getCategories({cache: true}) up to its first round trip.
getCategories(s, p) ==
  IF DOMAIN s.cache # {} THEN AfterCategories(associateCategoryFolders(s), p)
  ELSE IF s.world = NoWorld THEN [s EXCEPT !.proc[p].pc = "fetchWorld"]
  ELSE [SetRootNodes(s, p) EXCEPT !.proc[p].pc = "fetchCategories"]

\* The browser's _getCategories: getCategories() is called once and its
\* result kept.
getContentTree(s, p) ==
  IF s.browser.tree # NoRef THEN _getArticles(s, p) ELSE getCategories(s, p)

\* anvil.getWorld has answered: to _getCategories, or to the browser's getData.
WorldFetched(s, p) ==
  IF s.proc[p].op = "render" THEN getContentTree([s EXCEPT !.world = 1], p)
  ELSE [SetRootNodes([s EXCEPT !.world = 1], p) EXCEPT !.proc[p].pc = "fetchCategories"]

\* anvil.getCategories has answered with listing L.
CategoriesFetched(s, p, L) ==
  LET built == BuildCategories(s, p, L)
  IN IF built.ok THEN AfterCategories(associateCategoryFolders(built.s), p)
     ELSE Finish(built.s, p, Err("TypeError"))

\* article.category = categories.get(...): lines 109-113 of importArticle
ResolveCategory(s, art) ==
  IF art.category # NoCategory THEN MapGet(s, art.category)
  ELSE MapGet(s, UNCATEGORIZED)

_createNewEntry(s, p) ==
  IF s.proc[p].category = NoRef THEN Finish(s, p, Err("TypeError"))
  ELSE getCategoryFolder(s, p, s.proc[p].category)

\* anvil.getArticle has answered with art: resolve the category, search the
\* journal for a bound entry, then update it or create a new one.
ArticleFetched(s, p, art) ==
  LET entry == FindEntry(s.journal, s.proc[p].arg)
      t == [s EXCEPT !.proc[p].article = art, !.proc[p].category = ResolveCategory(s, art)]
  IN IF entry # NoEntry
     THEN [t EXCEPT !.proc[p].pc = "updateEntry", !.proc[p].target = entry]
     ELSE _createNewEntry(t, p)

\* name, pages and flags["world-anvil"] of the entry, from the article
EntryData(art) == [name |-> art.rev, pages |-> art.rev, articleId |-> art.id]

\* JournalEntry.create has answered.
EntryCreated(s, p) ==
  LET d == EntryData(s.proc[p].article)
      entry == [id |-> s.nextId, name |-> d.name, pages |-> d.pages,
                articleId |-> d.articleId, folder |-> s.proc[p].target,
                permission |-> PermissionNone]
  IN Finish([s EXCEPT !.journal = Append(@, entry), !.nextId = @ + 1], p, Ok(entry.id))

EntryUpdated_Appends(s, p) ==
  LET id == s.proc[p].target
  IN Finish([s EXCEPT !.journal = [i \in 1..Len(s.journal) |->
               IF s.journal[i].id = id THEN [s.journal[i] EXCEPT !.pages = @ + 1]
               ELSE s.journal[i]]], p, Ok(id))

\* entry.update has answered (_updateExistingEntry).
EntryUpdated_Replaced(s, p) ==
  LET d == EntryData(s.proc[p].article)
      id == s.proc[p].target
  IN Finish([s EXCEPT !.journal = [i \in 1..Len(s.journal) |->
               IF s.journal[i].id = id
               THEN [id |-> id, name |-> d.name, pages |-> d.pages, articleId |-> d.articleId,
                     folder |-> NullFolder, permission |-> PermissionNone]
               ELSE s.journal[i]]], p, Ok(id))

EntryUpdated(s, p) ==
  LET d == EntryData(s.proc[p].article)
      id == s.proc[p].target
  IN Finish([s EXCEPT !.journal = [i \in 1..Len(s.journal) |->
               IF s.journal[i].id = id
               THEN [s.journal[i] EXCEPT !.name = d.name, !.pages = d.pages,
                                         !.articleId = d.articleId]
               ELSE s.journal[i]]], p, Ok(id))

----------------------------------------------------------------------------
(* Cross-links: wa.js, activateWALinks *)

\* The client as constructed from an empty configuration, before any call.
NoCall == [op |-> "none", arg |-> "none", token |-> FALSE, cached |-> "none",
           selected |-> UndefinedId, outcome |-> "none"]
NoApi == [authToken |-> "", user |-> FALSE, worldId |-> UndefinedId, world |-> "none",
          pending |-> "none", sent |-> 0, last |-> NoCall]

NoClick == [gm |-> FALSE, article |-> "none", entry |-> NoEntry, permission |-> 0,
            observer |-> FALSE, result |-> "none"]

PermissionOf(js, id) ==
  LET hits == {i \in 1..Len(js) : js[i].id = id}
  IN IF hits = {} THEN PermissionNone ELSE js[Min(hits)].permission

\* entry.testUserPermission(game.user, "OBSERVER"): a Gamemaster holds every
\* permission, a player the entry's default one.
testUserPermission(js, id, isGM) == isGM \/ PermissionOf(js, id) >= PermissionObserver

LinkAction_Anyone(entry, isGM, observer) ==
  IF entry # NoEntry THEN (IF observer THEN "open" ELSE "denied") ELSE "import"

\* What the click handler does: open the bound entry (OBSERVER+), import the
\* article (GM only), or warn.
LinkAction(entry, isGM, observer) ==
  IF entry # NoEntry THEN (IF observer THEN "open" ELSE "denied")
  ELSE IF ~isGM THEN "denied"
  ELSE "import"

NoVisibility == [kind |-> "none", arg |-> "none", entry |-> NoEntry, calls |-> 0, targets |-> {},
                 before |-> <<>>, level |-> 0, thrown |-> FALSE]

----------------------------------------------------------------------------
(* Bulk import: the browser's _importCategory *)

NoBatch == [state |-> "idle", queue |-> <<>>, only |-> FALSE, synced |-> {}, failed |-> {},
            node |-> "none", list |-> <<>>, calls |-> <<>>, first |-> 0]

_articlesFromNode_Flat(s, r) == s.browser.shelf[r.id]

\* _articlesFromNode: the node's articles, then those of its children in order.
RECURSIVE _articlesFromNode(_, _), ArticlesFromChildren(_, _, _)
_articlesFromNode(s, r) ==
  s.browser.shelf[r.id] \o ArticlesFromChildren(s, r, 1)

ArticlesFromChildren(s, r, k) ==
  IF k > Len(Obj(s, r).children) THEN <<>>
  ELSE _articlesFromNode(s, Ref(r.o, Obj(s, r).children[k])) \o ArticlesFromChildren(s, r, k + 1)

\* if ( onlyExistingOnes && !article.entry ) continue;
RECURSIVE SkipUnbound(_, _, _)
SkipUnbound(s, only, q) ==
  IF q # <<>> /\ only /\ s.browser.entry[Head(q)] = NoEntry THEN SkipUnbound(s, only, Tail(q))
  ELSE q

BeginIn(s, p, op, arg) == [s EXCEPT !.proc[p] = [Idle EXCEPT !.op = op, !.arg = arg]]

\* The loop of _importCategory up to its next await: importArticle is called
\* for the next article that is not skipped, or the loop ends and the
\* completion is notified.
_importCategory(s, b) ==
  LET q == SkipUnbound(s, b.only, b.queue)
  IN IF q = <<>> THEN [s |-> s, b |-> [b EXCEPT !.state = "completed", !.queue = <<>>]]
     ELSE [s |-> getCategories(BeginIn(s, 1, "import", Head(q)), 1),
           b |-> [b EXCEPT !.queue = q, !.calls = Append(@, Head(q))]]

----------------------------------------------------------------------------
(* Category tree of the partition builder: getCategories, _getCategories,
   _buildCategoryBranch and _sortCategories of the earlier framework.js *)

CategoryNames == <<"c1", "c2", "c3", "c4", "c5">>
CategoryTitle == [c \in {CategoryNames[i] : i \in 1..Len(CategoryNames)} \cup {UNCATEGORIZED} |->
  IF c = "c1" THEN 5 ELSE IF c = "c2" THEN 1 ELSE IF c = "c3" THEN 3
  ELSE IF c = "c4" THEN 2 ELSE IF c = "c5" THEN 6 ELSE 4]

ListedIds(n) == {CategoryNames[i] : i \in 1..n}

\* parent_category of a listed category: none, or an id that is the root's,
\* the uncategorized node's, a listed one (its own included) or not listed.
ParentRefs(n) == {NoCategory, ROOT, UNCATEGORIZED, "cX"} \cup ListedIds(n)

\* The listings of n categories: unique ids, any parent references; the
\* positions are all numeric (with ties) or all missing.
TreeListings(n) ==
  {[numeric |-> b, categories |-> [i \in 1..n |->
      [id |-> CategoryNames[i], parent |-> f[i], position |-> 1 + (i % 2)]]] :
    b \in BOOLEAN, f \in [1..n -> ParentRefs(n)]}

NoShape == [children |-> <<>>, parent |-> <<>>]
NoTree == [phase |-> "none", numeric |-> FALSE, categories |-> <<>>, children |-> <<>>,
           parent |-> <<>>, calls |-> 0, first |-> NoShape]

\* The map after _getCategories: root, uncategorized (parent root), then the
\* listed categories with empty children.
Listed(L) ==
  LET ids == {L.categories[i].id : i \in 1..Len(L.categories)} \cup {ROOT, UNCATEGORIZED}
  IN [phase |-> "listed", numeric |-> L.numeric, categories |-> L.categories,
      children |-> [id \in ids |-> <<>>],
      parent |-> [id \in ids |-> IF id = UNCATEGORIZED THEN ROOT ELSE UndefinedId],
      calls |-> 0, first |-> NoShape]

\* Array.from(categories.values()).filter(c => c.id !== CATEGORY_ID.root)
Pending(t) == <<UNCATEGORIZED>> \o [i \in 1..Len(t.categories) |-> t.categories[i].id]

ListedAt(t, id) == t.categories[CHOOSE i \in 1..Len(t.categories) : t.categories[i].id = id]

\* parentId of the partition rule: c.parent_category?.id, the root when missing
ParentId(t, id) ==
  IF id = UNCATEGORIZED THEN ROOT
  ELSE IF ListedAt(t, id).parent = NoCategory THEN ROOT
  ELSE ListedAt(t, id).parent

IsNumeric(t, id) == id = UNCATEGORIZED \/ t.numeric

\* _sortCategories(a, b) < 0. The position of uncategorized (9e9) is above
\* every listed position.
_sortCategories(t, a, b) ==
  IF IsNumeric(t, a) /\ IsNumeric(t, b)
  THEN IF a = UNCATEGORIZED THEN FALSE
       ELSE IF b = UNCATEGORIZED THEN TRUE
       ELSE ListedAt(t, a).position < ListedAt(t, b).position
  ELSE CategoryTitle[a] < CategoryTitle[b]

\* Array.prototype.sort(_sortCategories), stable
RECURSIVE InsertCategory(_, _, _)
InsertCategory(t, sorted, x) ==
  IF sorted = <<>> THEN <<x>>
  ELSE IF _sortCategories(t, x, Head(sorted)) THEN <<x>> \o sorted
  ELSE <<Head(sorted)>> \o InsertCategory(t, Tail(sorted), x)

RECURSIVE SortCategories(_, _)
SortCategories(t, seq) ==
  IF seq = <<>> THEN <<>>
  ELSE InsertCategory(t, SortCategories(t, SubSeq(seq, 1, Len(seq) - 1)), seq[Len(seq)])

DepthGuard == 1000

AttachUnmapped_Dropped(t, unmapped) == t

\* The un-mapped categories are sorted and pushed to the root's children,
\* their parent left undefined.
AttachUnmapped(t, unmapped) ==
  LET sorted == SortCategories(t, unmapped)
      ids == {unmapped[k] : k \in 1..Len(unmapped)}
  IN [t EXCEPT !.children[ROOT] = @ \o sorted,
               !.parent = [id \in DOMAIN @ |-> IF id \in ids THEN UndefinedId ELSE @[id]]]

SetChildren_Pushed(t, parent, children) ==
  [t EXCEPT !.children[parent] = @ \o children]

\* children.forEach(c => c.parent = parent); parent["children"] = children
SetChildren(t, parent, children) ==
  LET isChild == {children[k] : k \in 1..Len(children)}
  IN [t EXCEPT !.children[parent] = children,
               !.parent = [id \in DOMAIN @ |-> IF id \in isChild THEN parent ELSE @[id]]]

\* _buildCategoryBranch(parent, categories, _depth): the pending categories
\* whose parentId is the parent become its children, sorted; the branches of
\* the children are built from what is left. Returns what is still pending.
RECURSIVE _buildCategoryBranch(_, _, _, _), BuildBranches(_, _, _, _)
_buildCategoryBranch(t, parent, categories, depth) ==
  IF depth > DepthGuard THEN [t |-> t, pending |-> categories, thrown |-> TRUE]
  ELSE LET IsChild(c) == ParentId(t, c) = parent
           NotChild(c) == ~IsChild(c)
           children == SortCategories(t, SelectSeq(categories, IsChild))
       IN BuildBranches([t |-> SetChildren(t, parent, children), pending |-> SelectSeq(categories, NotChild), thrown |-> FALSE],
                        children, 1, depth + 1)

BuildBranches(r, children, k, depth) ==
  IF r.thrown \/ k > Len(children) THEN r
  ELSE BuildBranches(_buildCategoryBranch(r.t, children[k], r.pending, depth), children, k + 1, depth)

\* getCategories: the tree built over the map.
BuildTree(t) ==
  LET r == _buildCategoryBranch(t, ROOT, Pending(t), 0)
  IN IF r.thrown THEN [r.t EXCEPT !.phase = "thrown"]
     ELSE [AttachUnmapped(r.t, r.pending) EXCEPT !.phase = "built", !.calls = @ + 1]

----------------------------------------------------------------------------
(* The journal's category tree: journal.js, buildCategoryBranch *)

MaxRaw == 2
SecurityGuard == 1000

RawIds == {"c1", "c2"}

\* The raw categories of a request: any ids (also the same id twice), the
\* parent_category missing or naming a listed or a foreign id.
RawListings ==
  UNION {[1..n -> [id : RawIds, parent : {NoCategory, "cX"} \cup RawIds]] : n \in 0..MaxRaw}

NoBranch == [pc |-> "none", raw |-> <<>>, tops |-> <<>>, next |-> 1, stack |-> <<>>, set |-> {}]

\* _getCategories has the raw categories of the request.
Requested(raw) == [NoBranch EXCEPT !.pc = "raw", !.raw = raw]

\* the positions of the raw list
Positions(raw) == [i \in 1..Len(raw) |-> i]

\* the titles of the raw categories, by position
RawTitle(raw) == [i \in 1..Len(raw) |-> CategoryTitle[raw[i].id]]

\* rawCategories.filter(c => !c.parent_category)
TopLevel(raw) ==
  LET Orphan(j) == raw[j].parent = NoCategory
  IN SelectSeq(Positions(raw), Orphan)

\* rawCategories.filter(c => c.parent_category?.id === category.id).sort(...)
rawChilds(raw, i) ==
  LET ChildOf(j) == raw[j].parent = raw[i].id
  IN SortByTitle(SelectSeq(Positions(raw), ChildOf), RawTitle(raw))

Exceeded_Early(security) == security > 0

\* if (security > 1000) throw
Exceeded(security) == security > SecurityGuard

\* buildCategoryBranch(category, rawCategories, categoryMap, security) is
\* entered: it throws, or its frame waits for the branches of its childs.
buildCategoryBranch(b, i, security) ==
  IF Exceeded(security) THEN [b EXCEPT !.pc = "thrown"]
  ELSE [b EXCEPT !.stack = Append(@, [c |-> i, k |-> 0])]

\* The frame on top has all its childs: categoryMap.set(data.id, data) and
\* the branch is returned to the caller, which goes on with its next child.
Returned(b) ==
  LET n == Len(b.stack)
      done == [b EXCEPT !.set = @ \cup {b.raw[b.stack[n].c].id},
                        !.stack = SubSeq(@, 1, n - 1)]
  IN IF n = 1 THEN [done EXCEPT !.next = @ + 1]
     ELSE [done EXCEPT !.stack[n - 1].k = @ + 1]

\* _getCategories starts the build over the categories without parent.
StartBranches ==
  /\ branch.pc = "raw"
  /\ branch' = [branch EXCEPT !.pc = "building", !.tops = TopLevel(branch.raw)]
  /\ UNCHANGED <<engine, tree, fetch, sec, api>>

\* The next call of buildCategoryBranch: for the next top-level category
\* (security 0), or for the next child of the frame on top (security + 1).
CallBranch ==
  /\ branch.pc = "building"
  /\ LET n == Len(branch.stack)
     IN IF n = 0
        THEN /\ branch.next <= Len(branch.tops)
             /\ branch' = buildCategoryBranch(branch, branch.tops[branch.next], 0)
        ELSE LET childs == rawChilds(branch.raw, branch.stack[n].c)
             IN /\ branch.stack[n].k < Len(childs)
                /\ branch' = buildCategoryBranch(branch, childs[branch.stack[n].k + 1], n)
  /\ UNCHANGED <<engine, tree, fetch, sec, api>>

ReturnBranch ==
  /\ branch.pc = "building"
  /\ Len(branch.stack) > 0
  /\ LET top == branch.stack[Len(branch.stack)]
     IN top.k = Len(rawChilds(branch.raw, top.c))
  /\ branch' = Returned(branch)
  /\ UNCHANGED <<engine, tree, fetch, sec, api>>

\* Every top-level branch is built: the tree is stored.
TreeBuilt ==
  /\ branch.pc = "building"
  /\ branch.stack = <<>>
  /\ branch.next > Len(branch.tops)
  /\ branch' = [branch EXCEPT !.pc = "built"]
  /\ UNCHANGED <<engine, tree, fetch, sec, api>>

----------------------------------------------------------------------------
(* Paginated requests: api.js, _fetchMany *)

DefaultLimit == 50

NoFetch == [pc |-> "none", n |-> 0, limit |-> 0, offset |-> 0, result |-> <<>>,
            requests |-> <<>>, pages |-> <<>>]

\* _fetchMany is entered for a remote collection of n items, with page size limit.
Fetching(n, limit) == [NoFetch EXCEPT !.pc = "fetching", !.n = n, !.limit = limit]

\* The remote answers {limit, offset}: the items from the offset on, limit at
\* most. Item i of the collection is named i.
Page(n, offset, limit) ==
  LET left == IF n > offset THEN n - offset ELSE 0
      len == IF left < limit THEN left ELSE limit
  IN [i \in 1..len |-> offset + i]

hasMore_Never(nReturned, limit) == FALSE

hasMore_NonEmpty(nReturned, limit) == nReturned > 0

\* hasMore = nReturned === limit
hasMore(nReturned, limit) == nReturned = limit

\* One turn of the loop, the request answered.
PageFetched(f) ==
  LET items == Page(f.n, f.offset, f.limit)
      nReturned == Len(items)
  IN [f EXCEPT !.requests = Append(@, f.offset),
               !.pages = Append(@, nReturned),
               !.offset = @ + nReturned,
               !.result = @ \o items,
               !.pc = IF hasMore(nReturned, f.limit) THEN "fetching" ELSE "returned"]

----------------------------------------------------------------------------
(* Secret reveal flags: importArticle of the earlier framework.js *)

SecretIds == {"A", "B", "C"}

NoSecrets == [bound |-> FALSE, flags |-> <<>>, old |-> <<>>, content |-> {}, written |-> <<>>,
              resyncs |-> 0]

\* content.secrets.forEach(secretId => newWaFlag.secrets[secretId] = false)
Unrevealed(ids) == [id \in ids |-> FALSE]

MergeSecrets_KeepAll(new, old) ==
  [id \in DOMAIN new \cup DOMAIN old |-> IF id \in DOMAIN old THEN old[id] ELSE new[id]]

\* The loop over Object.entries(oldWaFlagSecrets): a value is copied when the
\* new map has the id as own property.
MergeSecrets(new, old) ==
  [id \in DOMAIN new |-> IF id \in DOMAIN old THEN old[id] ELSE new[id]]

\* What the host may store on entry.update({"flags.world-anvil": newWaFlag}):
\* the map written, or the stored map merged with it key by key.
Stored(old, written) ==
  { written,
    [id \in DOMAIN old \cup DOMAIN written |-> IF id \in DOMAIN written THEN written[id] ELSE old[id]] }

----------------------------------------------------------------------------
(* Visibility commands of the browser: _displayFolder, _hideFolder,
   _displayEntry, _hideEntry *)

SetPermission_All(js, ids, level) ==
  [i \in 1..Len(js) |-> [js[i] EXCEPT !.permission = level]]

\* The update of the permission of the documents ids
SetPermission(js, ids, level) ==
  [i \in 1..Len(js) |-> IF js[i].id \in ids THEN [js[i] EXCEPT !.permission = level] ELSE js[i]]

EntryIds(js) == {js[i].id : i \in 1..Len(js)}

\* The filter of _displayFolder: !a.entry?.data.permission.default < OBSERVER.
\* The negation is taken first; the boolean it gives compares as 0 or 1.
DisplayFilter(s, a) ==
  LET entry == s.browser.entry[a]
      falsy == entry = NoEntry \/ PermissionOf(s.journal, entry) = PermissionNone
  IN (IF falsy THEN 1 ELSE 0) < PermissionObserver

\* The filter of _hideFolder: a.entry?.data.permission.default >= OBSERVER
HideFilter(s, a) ==
  LET entry == s.browser.entry[a]
  IN entry # NoEntry /\ PermissionOf(s.journal, entry) >= PermissionObserver

\* this.render() once the command is through: the cached tree and articles
\* are rendered again.
Refresh(s, p) == getContentTree([s EXCEPT !.proc[p].op = "render"], p)

\* _displayFolder / _hideFolder up to the update: the articles of the
\* category that pass the filter are mapped to updates of a.entry.id (a
\* TypeError for an article without entry); the updates, if any, are sent in
\* one JournalEntry.updateDocuments call.
FolderVisibility(s, p, c, display) ==
  LET articles == IF c \in DOMAIN s.cache THEN s.browser.shelf[c] ELSE <<>>
      Passes(a) == IF display THEN DisplayFilter(s, a) ELSE HideFilter(s, a)
      selected == SelectSeq(articles, Passes)
      targets == {s.browser.entry[selected[k]] : k \in 1..Len(selected)}
      t == [s EXCEPT !.vis = [kind |-> IF display THEN "displayFolder" ELSE "hideFolder",
                              arg |-> c, entry |-> NoEntry, calls |-> 0, targets |-> {},
                              before |-> s.journal,
                              level |-> IF display THEN PermissionObserver ELSE PermissionNone,
                              thrown |-> FALSE]]
  IN IF NoEntry \in targets THEN Finish([t EXCEPT !.vis.thrown = TRUE], p, Err("TypeError"))
     ELSE IF targets # {}
     THEN [t EXCEPT !.vis.calls = 1, !.vis.targets = targets, !.proc[p].pc = "updatePermissions"]
     ELSE Refresh(t, p)

\* _displayEntry / _hideEntry up to the update: the entry is looked up by id;
\* the command throws when there is none.
EntryVisibility(s, p, id, display) ==
  LET t == [s EXCEPT !.vis = [kind |-> IF display THEN "displayEntry" ELSE "hideEntry",
                              arg |-> "none", entry |-> id, calls |-> 0, targets |-> {id},
                              before |-> s.journal,
                              level |-> IF display THEN PermissionObserver ELSE PermissionNone,
                              thrown |-> FALSE]]
  IN IF id \notin EntryIds(s.journal)
     THEN Finish([t EXCEPT !.vis.thrown = TRUE, !.vis.targets = {}], p, Err("NotFound"))
     ELSE [t EXCEPT !.vis.calls = 1, !.proc[p].pc = "updatePermissions"]

\* The update has answered: the permissions are set, the browser renders.
PermissionsUpdated(s, p) ==
  Refresh([s EXCEPT !.journal = SetPermission(@, s.vis.targets, s.vis.level)], p)

----------------------------------------------------------------------------
(* Actions *)

Nodes == {ROOT, UNCATEGORIZED, "c1", "c2"}

InitEngine ==
  /\ world = NoWorld
  /\ cache = <<>>
  /\ heap = [o \in Calls |-> <<>>]
  /\ folders = <<>>
  /\ journal = <<>>
  /\ nextId = 1
  /\ listing \in CategoryListings
  /\ artCat \in ArticleCategories
  /\ remote = [a \in Articles |-> 1]
  /\ proc = [p \in Calls |-> Idle]
  /\ bound = [a \in Articles |-> {}]
  /\ browser = [tree |-> NoRef, articles |-> <<>>, shelf |-> [c \in Nodes |-> <<>>],
                entry |-> [a \in Articles |-> NoEntry]]
  /\ batch = NoBatch
  /\ returned = [c \in Nodes |-> {}]
  /\ idem = NoArticle
  /\ click = NoClick
  /\ vis = NoVisibility

Init ==
  /\ InitEngine
  /\ tree = NoTree
  /\ fetch = NoFetch
  /\ sec = NoSecrets
  /\ api = NoApi
  /\ branch = NoBranch

\* No call is in flight: the caller awaited the previous one.
Quiet == \A p \in Calls : proc[p].pc = "idle"

Begin(p, op, arg) == BeginIn(Engine, p, op, arg)

\* importArticle(a) is called.
StartImport(p, a) ==
  /\ proc[p].pc = "idle"
  /\ Commit(getCategories(Begin(p, "import", a), p))
  /\ UNCHANGED <<listing, artCat, remote, bound, batch, idem, click, tree, fetch, sec, api, branch>>

\* getCategories() is called through the module's api.
StartCategories(p) ==
  /\ proc[p].pc = "idle"
  /\ Commit(getCategories(Begin(p, "categories", "none"), p))
  /\ UNCHANGED <<listing, artCat, remote, bound, batch, idem, click, tree, fetch, sec, api, branch>>

\* getCategoryFolder(category) is called with a category of the map.
StartFolder(p, c) ==
  /\ proc[p].pc = "idle"
  /\ c \in DOMAIN cache
  /\ LET s == Begin(p, "folder", c)
         r == MapGet(s, c)
     IN Commit(getCategoryFolder([s EXCEPT !.proc[p].category = r], p, r))
  /\ UNCHANGED <<listing, artCat, remote, bound, batch, idem, click, tree, fetch, sec, api, branch>>

WorldResponse(p) ==
  /\ proc[p].pc = "fetchWorld"
  /\ Commit(WorldFetched(Engine, p))
  /\ UNCHANGED <<listing, artCat, remote, bound, batch, idem, click, tree, fetch, sec, api, branch>>

CategoriesResponse(p) ==
  /\ proc[p].pc = "fetchCategories"
  /\ Commit(CategoriesFetched(Engine, p, listing))
  /\ UNCHANGED <<listing, artCat, remote, bound, batch, idem, click, tree, fetch, sec, api, branch>>

ArticleResponse(p) ==
  /\ proc[p].pc = "fetchArticle"
  /\ LET a == proc[p].arg
     IN Commit(ArticleFetched(Engine, p, [id |-> a, rev |-> remote[a], category |-> artCat[a]]))
  /\ UNCHANGED <<listing, artCat, remote, bound, batch, idem, click, tree, fetch, sec, api, branch>>

RequestFails_Swallowed(p) ==
  /\ proc[p].pc \in {"fetchWorld", "fetchCategories", "fetchArticle", "fetchArticles"}
  /\ Commit(Finish(Engine, p, Ok(NoEntry)))
  /\ UNCHANGED <<listing, artCat, remote, bound, batch, idem, click, tree, fetch, sec, api, branch>>

\* A request to World Anvil answers with a status other than 200: _fetch throws.
RequestFails(p) ==
  /\ proc[p].pc \in {"fetchWorld", "fetchCategories", "fetchArticle", "fetchArticles"}
  /\ Commit(Finish(Engine, p, Err("HttpError")))
  /\ UNCHANGED <<listing, artCat, remote, bound, batch, idem, click, tree, fetch, sec, api, branch>>

FolderResponse(p) ==
  /\ proc[p].pc = "createFolder"
  /\ Commit(FolderCreated(Engine, p))
  /\ UNCHANGED <<listing, artCat, remote, bound, batch, idem, click, tree, fetch, sec, api, branch>>

CreateResponse(p) ==
  /\ proc[p].pc = "createEntry"
  /\ Commit(EntryCreated(Engine, p))
  /\ UNCHANGED <<listing, artCat, remote, bound, batch, idem, click, tree, fetch, sec, api, branch>>

UpdateResponse(p) ==
  /\ proc[p].pc = "updateEntry"
  /\ Commit(EntryUpdated(Engine, p))
  /\ UNCHANGED <<listing, artCat, remote, bound, batch, idem, click, tree, fetch, sec, api, branch>>

\* The browser is rendered: getData.
\* getCategories({cache: false}) up to its first round trip: the map is
\* cleared, the world requested when none is cached, the root nodes set.
RebuildCategories(s, p) ==
  LET t == [s EXCEPT !.cache = <<>>]
  IN IF t.world = NoWorld THEN [t EXCEPT !.proc[p].pc = "fetchWorld"]
     ELSE [SetRootNodes(t, p) EXCEPT !.proc[p].pc = "fetchCategories"]

StartRebuild(p) ==
  /\ proc[p].pc = "idle"
  /\ Commit(RebuildCategories(Begin(p, "categories", "fresh"), p))
  /\ UNCHANGED <<listing, artCat, remote, bound, batch, idem, click, tree, fetch, sec, api, branch>>

StartRender(p) ==
  /\ proc[p].pc = "idle"
  /\ LET s == Begin(p, "render", "none")
     IN Commit(IF s.world = NoWorld THEN [s EXCEPT !.proc[p].pc = "fetchWorld"]
               ELSE getContentTree(s, p))
  /\ UNCHANGED <<listing, artCat, remote, bound, batch, idem, click, tree, fetch, sec, api, branch>>

ArticlesResponse(p) ==
  /\ proc[p].pc = "fetchArticles"
  /\ Commit(ArticlesFetched(Engine, p, artCat))
  /\ UNCHANGED <<listing, artCat, remote, bound, batch, idem, click, tree, fetch, sec, api, branch>>

\* A header button of the rendered browser is clicked: import-all, or sync-all
\* (onlyExistingOnes).
StartBulk(only) ==
  /\ browser.tree # NoRef /\ DOMAIN browser.articles # {}
  /\ batch.state # "running"
  /\ LET articles == _articlesFromNode(Engine, browser.tree)
         r == _importCategory(Engine, [NoBatch EXCEPT !.state = "running", !.only = only,
                                         !.queue = articles, !.node = ROOT, !.list = articles,
                                         !.first = nextId])
     IN Commit(r.s) /\ batch' = r.b
  /\ UNCHANGED <<listing, artCat, remote, bound, idem, click, tree, fetch, sec, api, branch>>

\* The sync-folder button of a rendered category is clicked: _syncFolder.
SyncFolder(c) ==
  /\ browser.tree # NoRef /\ DOMAIN browser.articles # {}
  /\ batch.state # "running"
  /\ c \in DOMAIN cache \ {ROOT}
  /\ LET articles == _articlesFromNode(Engine, MapGet(Engine, c))
         r == _importCategory(Engine, [NoBatch EXCEPT !.state = "running", !.queue = articles,
                                         !.node = c, !.list = articles, !.first = nextId])
     IN Commit(r.s) /\ batch' = r.b
  /\ UNCHANGED <<listing, artCat, remote, bound, idem, click, tree, fetch, sec, api, branch>>

\* The importArticle call awaited by the loop has settled: the loop goes on
\* when it fulfilled; when it rejected, the exception leaves the loop and
\* _importCategory rejects.
BulkResume ==
  /\ batch.state = "running"
  /\ proc[1].pc = "done"
  /\ LET a == proc[1].arg
         ok == proc[1].outcome.status = "ok"
         s == [Engine EXCEPT !.proc[1] = Idle]
         r == _importCategory(s, [batch EXCEPT !.synced = @ \cup {a}, !.queue = Tail(@)])
     IN /\ Commit(IF ok THEN r.s ELSE s)
        /\ batch' = IF ok THEN r.b
                    ELSE [batch EXCEPT !.state = "thrown", !.failed = @ \cup {a},
                                       !.queue = Tail(@)]
        /\ bound' = IF ok THEN [bound EXCEPT ![a] = @ \cup {proc[1].outcome.value}] ELSE bound
        /\ idem' = IF ok THEN proc[1].article ELSE NoArticle
  /\ UNCHANGED <<listing, artCat, remote, click, tree, fetch, sec, api, branch>>

\* A cross-link to article a is clicked, by a Gamemaster or by a player.
ClickLink(p, a, isGM) ==
  /\ proc[p].pc = "idle"
  /\ LET entry == FindEntry(journal, a)
         observer == entry # NoEntry /\ testUserPermission(journal, entry, isGM)
         result == LinkAction(entry, isGM, observer)
     IN /\ click' = [gm |-> isGM, article |-> a, entry |-> entry,
                     permission |-> PermissionOf(journal, entry),
                     observer |-> observer, result |-> result]
        /\ Commit(IF result = "import" THEN getCategories(Begin(p, "import", a), p) ELSE Engine)
  /\ UNCHANGED <<listing, artCat, remote, bound, batch, idem, tree, fetch, sec, api, branch>>

\* A visibility button of a rendered category is clicked.
ClickFolderVisibility(p, c, display) ==
  /\ proc[p].pc = "idle"
  /\ browser.tree # NoRef
  /\ c \in DOMAIN cache \ {ROOT}
  /\ Commit(FolderVisibility(Begin(p, "visibility", c), p, c, display))
  /\ UNCHANGED <<listing, artCat, remote, bound, batch, idem, click, tree, fetch, sec, api, branch>>

\* A visibility button of a rendered article is clicked: the button carries
\* the id of the entry the article had when the browser was rendered.
ClickEntryVisibility(p, a, display) ==
  /\ proc[p].pc = "idle"
  /\ browser.entry[a] # NoEntry
  /\ Commit(EntryVisibility(Begin(p, "visibility", a), p, browser.entry[a], display))
  /\ UNCHANGED <<listing, artCat, remote, bound, batch, idem, click, tree, fetch, sec, api, branch>>

PermissionResponse(p) ==
  /\ proc[p].pc = "updatePermissions"
  /\ Commit(PermissionsUpdated(Engine, p))
  /\ UNCHANGED <<listing, artCat, remote, bound, batch, idem, click, tree, fetch, sec, api, branch>>

\* A journal entry is deleted. The journal directory is rendered again and
\* its hook renders the browser again (redraw), unless the deletion was made
\* without rendering; the browser has all its data and recomputes the entry
\* of every article at once.
DeleteEntry(id, redraw) ==
  /\ id \in EntryIds(journal)
  /\ nextId <= MaxDocuments
  /\ LET Kept(e) == e.id # id
         s == [Engine EXCEPT !.journal = SelectSeq(journal, Kept)]
     IN Commit(IF redraw /\ browser.tree # NoRef /\ DOMAIN browser.articles # {}
               THEN [Rendered(s, 1) EXCEPT !.proc = s.proc]
               ELSE s)
  /\ UNCHANGED <<listing, artCat, remote, bound, batch, idem, click, tree, fetch, sec, api, branch>>

\* The call's promise settles and its caller resumes.
Return(p) ==
  /\ proc[p].pc = "done"
  /\ ~(p = 1 /\ batch.state = "running")
  /\ proc' = [proc EXCEPT ![p] = Idle]
  /\ LET imported == proc[p].op = "import" /\ proc[p].outcome.status = "ok"
     IN /\ bound' = IF imported
                    THEN [bound EXCEPT ![proc[p].arg] = @ \cup {proc[p].outcome.value}]
                    ELSE bound
        /\ idem' = IF imported THEN proc[p].article ELSE NoArticle
  /\ UNCHANGED <<world, cache, heap, folders, journal, nextId, listing, artCat, remote,
                 browser, batch, returned, click, vis, tree, fetch, sec, api, branch>>

\* The article is edited on World Anvil.
RemoteEdit(a) ==
  /\ remote[a] < MaxRevision
  /\ remote' = [remote EXCEPT ![a] = @ + 1]
  /\ UNCHANGED <<world, cache, heap, folders, journal, nextId, listing, artCat, proc,
                 bound, browser, batch, returned, idem, click, vis, tree, fetch, sec, api, branch>>

Step(p) ==
  \/ WorldResponse(p)
  \/ CategoriesResponse(p)
  \/ ArticleResponse(p)
  \/ RequestFails(p)
  \/ FolderResponse(p)
  \/ CreateResponse(p)
  \/ UpdateResponse(p)
  \/ Return(p)

\* Every call is awaited to completion before the next one is made.
Next ==
  \/ \E a \in Single : Quiet /\ StartImport(1, a)
  \/ Quiet /\ StartCategories(1)
  \/ \E c \in Nodes : Quiet /\ StartFolder(1, c)
  \/ \E p \in Calls : Step(p)
  \/ \E a \in Single : RemoteEdit(a)

Spec == Init /\ [][Next]_vars

\* Calls are made from independent UI events and interleave at their awaits.
NextConcurrent ==
  \/ \E p \in Calls, a \in Single : StartImport(p, a)
  \/ \E p \in Calls : Step(p)

\* The scenario world: c2 listed under c1, a1 in c2, a2 in c1 or c2.
InitConcurrent ==
  /\ Init
  /\ listing[1].children # <<>>
  /\ artCat["a1"] = "c2"

SpecConcurrent == InitConcurrent /\ [][NextConcurrent]_vars

\* Two independent UI events import different articles, a1 and a2, whose
\* categories share the ancestor c1 or are the same category.
NextSiblings ==
  \/ StartImport(1, "a1")
  \/ StartImport(2, "a2")
  \/ \E p \in Calls : Step(p)

SpecSiblings == InitConcurrent /\ [][NextSiblings]_vars

\* The browser: it is rendered, and its header buttons run bulk imports.
\* The category cache in use: imports, getCategories with and without cache,
\* the browser's renders, each call awaited.
NextCache ==
  \/ \E a \in Single : Quiet /\ StartImport(1, a)
  \/ Quiet /\ StartCategories(1)
  \/ Quiet /\ StartRebuild(1)
  \/ Quiet /\ StartRender(1)
  \/ \E p \in Calls : ArticlesResponse(p)
  \/ \E p \in Calls : Step(p)

SpecCache == Init /\ [][NextCache]_vars

NextBulk ==
  \/ Quiet /\ batch.state # "running" /\ StartRender(1)
  \/ \E only \in BOOLEAN : Quiet /\ StartBulk(only)
  \/ \E p \in Calls : ArticlesResponse(p)
  \/ BulkResume
  \/ \E p \in Calls : Step(p)

\* No command is running.
AtRest == Quiet /\ batch.state # "running"

\* Cross-links are clicked by the Gamemaster or by a player; the Gamemaster
\* shows and hides entries in the browser.
NextLinks ==
  \/ AtRest /\ StartRender(1)
  \/ \E p \in Calls : ArticlesResponse(p)
  \/ \E p \in Calls : WorldResponse(p) \/ CategoriesResponse(p) \/ ArticleResponse(p)
  \/ \E p \in Calls : RequestFails(p) \/ FolderResponse(p) \/ CreateResponse(p) \/ Return(p)
  \/ \E a \in Single, gm \in BOOLEAN : AtRest /\ ClickLink(1, a, gm)
  \/ \E a \in Single, display \in BOOLEAN : AtRest /\ ClickEntryVisibility(1, a, display)
  \/ \E p \in Calls : PermissionResponse(p)

SpecLinks == InitConcurrent /\ [][NextLinks]_vars

\* The Gamemaster imports articles that have no entry, deletes entries, and
\* shows and hides categories and entries in the browser; every request is
\* answered.
NextShelf ==
  \/ AtRest /\ StartRender(1)
  \/ \E a \in Articles : AtRest /\ FindEntry(journal, a) = NoEntry /\ StartImport(1, a)
  \/ \E p \in Calls : ArticlesResponse(p)
  \/ \E p \in Calls : WorldResponse(p) \/ CategoriesResponse(p) \/ ArticleResponse(p)
  \/ \E p \in Calls : FolderResponse(p) \/ CreateResponse(p) \/ Return(p)
  \/ \E c \in Nodes, display \in BOOLEAN : AtRest /\ ClickFolderVisibility(1, c, display)
  \/ \E a \in Articles, display \in BOOLEAN : AtRest /\ ClickEntryVisibility(1, a, display)
  \/ \E p \in Calls : PermissionResponse(p)
  \/ \E i \in 1..MaxDocuments, redraw \in BOOLEAN : AtRest /\ DeleteEntry(i, redraw)

\* a1 in c1 or c2, a2 and a3 in c2, c2 listed under c1.
InitShelf ==
  /\ Init
  /\ listing[1].children # <<>>
  /\ artCat["a1"] \in {"c1", "c2"} /\ artCat["a2"] = "c2"

SpecShelf == InitShelf /\ [][NextShelf]_vars

\* Entries are imported, shown to or hidden from the players in the browser,
\* edited on World Anvil and imported again, each call awaited.
NextResync ==
  \/ AtRest /\ StartRender(1)
  \/ \E a \in Single : AtRest /\ StartImport(1, a)
  \/ \E p \in Calls : ArticlesResponse(p)
  \/ \E p \in Calls : WorldResponse(p) \/ CategoriesResponse(p) \/ ArticleResponse(p)
  \/ \E p \in Calls : FolderResponse(p) \/ CreateResponse(p) \/ UpdateResponse(p) \/ Return(p)
  \/ \E a \in Single, display \in BOOLEAN : AtRest /\ ClickEntryVisibility(1, a, display)
  \/ \E p \in Calls : PermissionResponse(p)
  \/ \E a \in Single : RemoteEdit(a)

SpecResync == InitShelf /\ [][NextResync]_vars

SpecBulk == Init /\ [][NextBulk]_vars

----------------------------------------------------------------------------
(* The partition builder on its own *)

MaxCategories == 3
MaxCalls == 2

\* getCategories is called: on the fresh map, and again on the cached one.
\* The tree of the first call is remembered.
GetTree ==
  /\ tree.phase \in {"listed", "built"}
  /\ tree.calls < MaxCalls
  /\ LET built == BuildTree(tree)
     IN tree' = IF tree.calls = 0 /\ built.phase = "built"
                THEN [built EXCEPT !.first = [children |-> built.children, parent |-> built.parent]]
                ELSE built
  /\ UNCHANGED <<engine, fetch, sec, api, branch>>

\* getCategories({cache: false}): the map is cleared and filled again from
\* the same listing.
Relist ==
  /\ tree.phase = "built"
  /\ tree.calls < MaxCalls
  /\ tree' = [Listed([numeric |-> tree.numeric, categories |-> tree.categories])
                EXCEPT !.calls = tree.calls, !.first = tree.first]
  /\ UNCHANGED <<engine, fetch, sec, api, branch>>

\* The engine stands by in one of its initial states.
Standby ==
  /\ InitEngine
  /\ listing = CHOOSE L \in CategoryListings : L[1].children # <<>>
  /\ artCat = [a \in Articles |-> "c2"]

InitTree ==
  /\ Standby
  /\ \E n \in 0..MaxCategories : tree \in {Listed(L) : L \in TreeListings(n)}
  /\ fetch = NoFetch
  /\ sec = NoSecrets
  /\ api = NoApi
  /\ branch = NoBranch

NextTree == GetTree \/ Relist

SpecTree == InitTree /\ [][NextTree]_vars

\* The two tree builders on their own: the partition builder over a listing,
\* or the journal's builder over the raw categories of a request.
InitBranch ==
  /\ Standby
  /\ fetch = NoFetch
  /\ sec = NoSecrets
  /\ api = NoApi
  /\ \/ /\ branch = NoBranch
        /\ \E n \in 0..MaxCategories : tree \in {Listed(L) : L \in TreeListings(n)}
     \/ /\ tree = NoTree
        /\ branch \in {Requested(raw) : raw \in RawListings}

NextBranch == GetTree \/ Relist \/ StartBranches \/ CallBranch \/ ReturnBranch \/ TreeBuilt

\* The partition builder is one step. The journal's builder runs
\* synchronously: a build that can make its next call or return does so.
SpecBranch ==
  /\ InitBranch
  /\ [][NextBranch]_vars
  /\ WF_vars(StartBranches \/ CallBranch \/ ReturnBranch \/ TreeBuilt)

----------------------------------------------------------------------------
(* The paginated request on its own *)

MaxItems == 7
MaxLimit == 4

FetchInputs ==
  {<<n, l>> : n \in 0..MaxItems, l \in 1..MaxLimit} \cup {<<137, DefaultLimit>>}

PageResponse ==
  /\ fetch.pc = "fetching"
  /\ fetch' = PageFetched(fetch)
  /\ UNCHANGED <<engine, tree, sec, api, branch>>

\* The request answers with a status other than 200: _fetch throws.
PageFails ==
  /\ fetch.pc = "fetching"
  /\ fetch' = [fetch EXCEPT !.pc = "thrown"]
  /\ UNCHANGED <<engine, tree, sec, api, branch>>

InitFetch ==
  /\ Standby
  /\ tree = NoTree
  /\ sec = NoSecrets
  /\ api = NoApi
  /\ branch = NoBranch
  /\ \E in \in FetchInputs : fetch = Fetching(in[1], in[2])

NextFetch == PageResponse \/ PageFails

SpecFetch == InitFetch /\ [][NextFetch]_vars

\* _fetchManyV2 is entered for a remote collection of n entities: const limit = 50.
FetchingV2(n) == [Fetching(n, DefaultLimit) EXCEPT !.pc = "fetchingV2"]

\* One turn of the loop of _fetchManyV2, the request answered with success:
\* offset += limit; result.push(...batch.entities).
PageFetchedV2(f) ==
  LET items == Page(f.n, f.offset, f.limit)
  IN [f EXCEPT !.requests = Append(@, f.offset),
               !.pages = Append(@, Len(items)),
               !.offset = @ + f.limit,
               !.result = @ \o items,
               !.pc = IF hasMore(Len(items), f.limit) THEN "fetchingV2" ELSE "returned"]

PageResponseV2 ==
  /\ fetch.pc = "fetchingV2"
  /\ fetch' = PageFetchedV2(fetch)
  /\ UNCHANGED <<engine, tree, sec, api, branch>>

\* _fetchV2 throws, or the batch comes without success: _fetchManyV2 throws.
PageFailsV2 ==
  /\ fetch.pc = "fetchingV2"
  /\ fetch' = [fetch EXCEPT !.pc = "thrown"]
  /\ UNCHANGED <<engine, tree, sec, api, branch>>

\* The collections _fetchManyV2 is run over: empty, less than a page, whole
\* pages, pages and a rest.
EntityCounts == {0, 37, 50, 100, 137}

InitFetchMany ==
  /\ Standby
  /\ tree = NoTree
  /\ sec = NoSecrets
  /\ api = NoApi
  /\ branch = NoBranch
  /\ \/ \E in \in FetchInputs : fetch = Fetching(in[1], in[2])
     \/ \E n \in EntityCounts : fetch = FetchingV2(n)

NextFetchMany == PageResponse \/ PageFails \/ PageResponseV2 \/ PageFailsV2

SpecFetchMany == InitFetchMany /\ [][NextFetchMany]_vars

----------------------------------------------------------------------------
(* The secret flags of one article's entry on their own *)

MaxResyncs == 3

\* importArticle runs for the article, whose content holds the secrets ids.
SyncSecrets(ids) ==
  /\ sec.resyncs < MaxResyncs
  /\ LET old == IF sec.bound THEN sec.flags ELSE <<>>
         written == MergeSecrets(Unrevealed(ids), old)
     IN \E stored \in (IF sec.bound THEN Stored(old, written) ELSE {written}) :
          sec' = [bound |-> TRUE, flags |-> stored, old |-> old, content |-> ids,
                  written |-> written, resyncs |-> sec.resyncs + 1]
  /\ UNCHANGED <<engine, tree, fetch, api, branch>>

\* The GM clicks a secret of the rendered entry: its flag is toggled.
ToggleSecret(id) ==
  /\ sec.bound
  /\ id \in sec.content
  /\ LET revealed == IF id \in DOMAIN sec.flags THEN sec.flags[id] ELSE FALSE
     IN sec' = [sec EXCEPT !.flags = [k \in DOMAIN @ \cup {id} |-> IF k = id THEN ~revealed ELSE @[k]]]
  /\ UNCHANGED <<engine, tree, fetch, api, branch>>

InitSecrets ==
  /\ Standby
  /\ tree = NoTree
  /\ fetch = NoFetch
  /\ sec = NoSecrets
  /\ api = NoApi
  /\ branch = NoBranch

NextSecrets ==
  \/ \E ids \in SUBSET SecretIds : SyncSecrets(ids)
  \/ \E id \in SecretIds : ToggleSecret(id)

SpecSecrets == InitSecrets /\ [][NextSecrets]_vars

\* The Gamemaster imports single articles, renders the browser and runs its
\* bulk commands, one command at a time; journal entries are deleted at any
\* moment, and the browser is rendered again every time.
NextSync ==
  \/ AtRest /\ StartRender(1)
  \/ \E a \in Single : AtRest /\ FindEntry(journal, a) = NoEntry /\ StartImport(1, a)
  \/ \E only \in BOOLEAN : AtRest /\ StartBulk(only)
  \/ \E c \in Nodes : AtRest /\ SyncFolder(c)
  \/ BulkResume
  \/ \E p \in Calls : ArticlesResponse(p)
  \/ \E p \in Calls : WorldResponse(p) \/ CategoriesResponse(p) \/ ArticleResponse(p)
  \/ \E p \in Calls : RequestFails(p) \/ FolderResponse(p) \/ CreateResponse(p)
  \/ \E p \in Calls : UpdateResponse(p) \/ Return(p)
  \/ \E i \in 1..MaxDocuments : DeleteEntry(i, TRUE)

SpecSync == InitShelf /\ [][NextSync]_vars

\* The children lists World Anvil may send for three categories: no child,
\* or one: a listed category (the category itself included) or a category
\* the listing does not hold.
ChildLists == {<<>>} \cup {<<x>> : x \in {"c1", "c2", "c3", "cX"}}

GraphListings ==
  {<< [id |-> "c1", title |-> 1, children |-> k1],
      [id |-> "c2", title |-> 2, children |-> k2],
      [id |-> "c3", title |-> 3, children |-> k3] >> : k1 \in ChildLists, k2 \in ChildLists,
                                                       k3 \in ChildLists}

\* The categories of the world are edited on World Anvil before the map is built.
RemoteListing(L) ==
  /\ Quiet
  /\ world = NoWorld
  /\ listing \in CategoryListings
  /\ listing' = L
  /\ UNCHANGED <<world, cache, heap, folders, journal, nextId, artCat, remote, proc,
                 bound, browser, batch, returned, idem, click, vis, tree, fetch, sec, api, branch>>

\* getCategories is called, one call at a time, for any listing.
NextGraph ==
  \/ \E L \in GraphListings : RemoteListing(L)
  \/ Quiet /\ StartCategories(1)
  \/ \E p \in Calls : WorldResponse(p) \/ CategoriesResponse(p)
  \/ \E p \in Calls : RequestFails(p) \/ Return(p)

InitGraph ==
  /\ Init
  /\ artCat = [a \in Articles |-> "c2"]

SpecGraph == InitGraph /\ [][NextGraph]_vars

----------------------------------------------------------------------------
(* The WorldAnvil client on its own *)

MaxRequests == 3

WorldIds == {"w1", "w2"}

\* A token is the empty string or a key; an argument left out is undefined.
Tokens == {"", "t"}

\* this.world?.id
CachedId(a) == IF a.world = "none" THEN UndefinedId ELSE a.world

\* A method of the client is entered.
Called(a, op, arg) ==
  [a EXCEPT !.last = [op |-> op, arg |-> arg, token |-> a.authToken # "", cached |-> a.world,
                      selected |-> a.worldId, outcome |-> "none"]]

\* _fetch: throws without a token, else sends the request and awaits it.
_fetch(a, endpoint) ==
  IF a.authToken = "" THEN [a EXCEPT !.last.outcome = "authError"]
  ELSE [a EXCEPT !.pending = endpoint, !.sent = @ + 1, !.last.outcome = "sent"]

_fetchV2(a, endpoint) ==
  IF a.authToken = "" THEN [a EXCEPT !.last.outcome = "authError"]
  ELSE [a EXCEPT !.pending = endpoint, !.sent = @ + 1, !.last.outcome = "sent"]

connect(a, authToken) ==
  LET b == [a EXCEPT !.authToken = IF authToken # UndefinedId THEN authToken ELSE @]
      c == Called(b, "connect", authToken)
  IN IF c.authToken = "" THEN [c EXCEPT !.last.outcome = "returned"] ELSE _fetch(c, "user")

getWorlds(a) ==
  LET b == Called(a, "getWorlds", "none")
  IN IF ~b.user THEN [b EXCEPT !.last.outcome = "empty"] ELSE _fetch(b, "worlds")

\* The comparison of line 301 holds for an undefined worldId when no world
\* is cached: null?.id is undefined.
getWorld(a, worldId) ==
  LET b == Called(a, "getWorld", worldId)
  IN IF CachedId(b) = worldId THEN [b EXCEPT !.last.outcome = "cached"]
     ELSE LET c == [b EXCEPT !.worldId = IF worldId # UndefinedId THEN worldId ELSE @]
          IN _fetch(c, c.worldId)

\* The request is answered: with status 200 (ok) or another one.
Answered(a, ok) ==
  LET b == [a EXCEPT !.pending = "none", !.last.outcome = IF ok THEN "ok" ELSE "failed"]
  IN IF ~ok THEN b
     ELSE CASE a.last.op = "connect" -> [b EXCEPT !.user = TRUE]
            [] a.last.op = "getWorld" -> [b EXCEPT !.worldId = a.last.arg, !.world = a.pending]
            [] OTHER -> b

CanCall == api.pending = "none" /\ api.sent < MaxRequests

Connect(authToken) ==
  /\ CanCall
  /\ api' = connect(api, authToken)
  /\ UNCHANGED <<engine, tree, fetch, sec, branch>>

GetWorlds ==
  /\ CanCall
  /\ api' = getWorlds(api)
  /\ UNCHANGED <<engine, tree, fetch, sec, branch>>

GetWorld(worldId) ==
  /\ CanCall
  /\ api' = getWorld(api, worldId)
  /\ UNCHANGED <<engine, tree, fetch, sec, branch>>

\* getArticle, over _fetch
GetArticle ==
  /\ CanCall
  /\ api' = _fetch(Called(api, "getArticle", "none"), "article")
  /\ UNCHANGED <<engine, tree, fetch, sec, branch>>

\* One page of _fetchManyV2, over _fetchV2
GetPageV2 ==
  /\ CanCall
  /\ api' = _fetchV2(Called(api, "_fetchManyV2", "none"), "world/categories")
  /\ UNCHANGED <<engine, tree, fetch, sec, branch>>

\* World Anvil answers; it knows no world "undefined".
Response(ok) ==
  /\ api.pending # "none"
  /\ ok => api.pending # UndefinedId
  /\ api' = Answered(api, ok)
  /\ UNCHANGED <<engine, tree, fetch, sec, branch>>

InitApi ==
  /\ Standby
  /\ tree = NoTree
  /\ branch = NoBranch
  /\ fetch = NoFetch
  /\ sec = NoSecrets
  /\ \E t \in Tokens, w \in WorldIds \cup {UndefinedId} :
       api = [NoApi EXCEPT !.authToken = t, !.worldId = w]

NextApi ==
  \/ \E t \in Tokens \cup {UndefinedId} : Connect(t)
  \/ GetWorlds
  \/ \E w \in WorldIds \cup {UndefinedId} : GetWorld(w)
  \/ GetArticle
  \/ GetPageV2
  \/ \E ok \in BOOLEAN : Response(ok)

SpecApi == InitApi /\ [][NextApi]_vars

----------------------------------------------------------------------------
(* Claims *)

BoundIds(a) == {journal[i].id : i \in {j \in 1..Len(journal) : journal[j].articleId = a}}
FolderIds(c) == {folders[i].id : i \in {j \in 1..Len(folders) : folders[j].categoryId = c}}
DoneOk(p, op) == proc[p].pc = "done" /\ proc[p].op = op /\ proc[p].outcome.status = "ok"

\* C1: with every importArticle call awaited before the next is made, at most
\* one journal entry carries an article id, and once a call for that id has
\* succeeded exactly one does: the entry the first successful call returned,
\* which every later call returns again.
C1_OneBinding ==
  \A a \in Articles :
    /\ Cardinality(BoundIds(a)) <= 1
    /\ bound[a] # {} => BoundIds(a) = bound[a]
    /\ \A p \in Calls : DoneOk(p, "import") /\ proc[p].arg = a => BoundIds(a) = {proc[p].outcome.value}

\* A repeated importArticle call for an already imported article has succeeded.
C1_Witness ==
  \E p \in Calls : DoneOk(p, "import") /\ bound[proc[p].arg] # {}

\* C2: at most one journal entry is bound to an article id in every reachable
\* state, also when importArticle runs started by independent UI events
\* interleave at their awaits.
C2_RaceFree == \A a \in Articles : Cardinality(BoundIds(a)) <= 1

\* C3: while importArticle runs again right after a successful import of the
\* same article, and the article it fetches is the one fetched before, no step
\* changes the journal entries (their name, pages, flags and folder) or the
\* folders.
C3_Idempotent ==
  [][ ( /\ idem # NoArticle
        /\ \A p \in Calls : proc[p].op \in {"none", "import"}
                            /\ proc[p].article \in {NoArticle, idem} )
      => UNCHANGED <<journal, folders>> ]_vars

\* The second of two importArticle calls for an unchanged article has succeeded.
C3_Witness ==
  \E p \in Calls : DoneOk(p, "import") /\ idem # NoArticle /\ proc[p].article = idem

\* C5: every getCategoryFolder call for a category returns the same folder, and
\* at most one folder is created for the category, also with getCategories and
\* associateCategoryFolders running in between.
C5_FolderIdempotent ==
  \A c \in Nodes : Cardinality(returned[c]) <= 1 /\ Cardinality(FolderIds(c)) <= 1

\* getCategoryFolder has returned the folder that an earlier importArticle,
\* through its own getCategoryFolder call, had created for an entry.
C5_Witness ==
  \E p \in Calls :
    /\ DoneOk(p, "folder") /\ proc[p].outcome.value > NullFolder
    /\ \E i \in 1..Len(journal) : journal[i].folder = proc[p].outcome.value

\* The category that lists c among its children, ROOT when none does.
ListedParent(c) ==
  LET ps == {i \in 1..Len(listing) : \E k \in 1..Len(listing[i].children) :
                                        listing[i].children[k] = c}
  IN IF ps = {} THEN ROOT ELSE listing[Min(ps)].id

\* The category an article is filed under.
FiledUnder(a) == IF artCat[a] = NoCategory THEN UNCATEGORIZED ELSE artCat[a]

\* C9: a folder of a category below another category was created after the
\* folder of that parent category and inside it, and an entry was created
\* after the folder of its article's category and inside it.
C9_AncestorsFirst ==
  /\ \A i \in 1..Len(folders) :
       LET q == ListedParent(folders[i].categoryId)
       IN IF q = ROOT THEN folders[i].parent = NullFolder
          ELSE folders[i].parent \in FolderIds(q) /\ folders[i].parent < folders[i].id
  /\ \A i \in 1..Len(journal) :
       /\ journal[i].folder \in FolderIds(FiledUnder(journal[i].articleId))
       /\ journal[i].folder < journal[i].id

\* The scenario: c2 listed under c1, a1 in c2; the folders of c1 and c2 and the
\* entry of a1 were created in that order, each inside the one before.
C9_Witness ==
  /\ artCat["a1"] = "c2" /\ ListedParent("c2") = "c1"
  /\ folders = << [id |-> 1, categoryId |-> "c1", parent |-> NullFolder],
                  [id |-> 2, categoryId |-> "c2", parent |-> 1] >>
  /\ Len(journal) >= 1 /\ journal[1].id = 3 /\ journal[1].articleId = "a1"
  /\ journal[1].folder = 2

\* C10: every article importArticle has fetched is resolved to a category of
\* the map, UNCATEGORIZED when it carries no category or one the map does not
\* hold, and the import does not fail on the category.
C10_ResolvedCategory ==
  \A p \in Calls : proc[p].article # NoArticle =>
    /\ proc[p].category # NoRef
    /\ proc[p].category.id \in DOMAIN cache
    /\ proc[p].article.category \notin DOMAIN cache => proc[p].category.id = UNCATEGORIZED
    /\ proc[p].outcome.err # "TypeError"

\* C4: a bulk import never ends by throwing, and when it has ended no article
\* of its list is left unvisited: the failure of one article's import is
\* reported for that article and the loop goes on to the articles after it.
C4_FailureIsolated ==
  /\ batch.state # "thrown"
  /\ batch.state = "completed" => batch.queue = <<>>
  /\ batch.failed # {} /\ batch.state # "running" => batch.queue = <<>>

\* The nodes met by walking the children lists from n, a node once for every
\* path that leads to it (the walk is cut below the depth of any tree).
RECURSIVE Walk(_, _, _), WalkChildren(_, _, _, _)
Walk(t, n, fuel) ==
  IF fuel = 0 THEN <<n>> \o t.children[n]
  ELSE <<n>> \o WalkChildren(t, n, 1, fuel)

WalkChildren(t, n, k, fuel) ==
  IF k > Len(t.children[n]) THEN <<>>
  ELSE Walk(t, t.children[n][k], fuel - 1) \o WalkChildren(t, n, k + 1, fuel)

TreeNodes(t) == {t.categories[i].id : i \in 1..Len(t.categories)} \cup {ROOT, UNCATEGORIZED}
Visited(t) == Walk(t, ROOT, Len(t.categories) + 2)

\* The parent references of c lead to the root.
RECURSIVE Attachable(_, _, _)
Attachable(t, c, fuel) ==
  \/ c = ROOT
  \/ /\ fuel > 0
     /\ c \in TreeNodes(t)
     /\ Attachable(t, ParentId(t, c), fuel - 1)

\* C6: the tree getCategories builds from a listing of N categories holds
\* N + 2 nodes, the listed ones, ROOT and UNCATEGORIZED; the walk from ROOT
\* through the children lists meets every one of them exactly once; a category
\* whose parent references do not lead to the root is a child of ROOT.
C6_TreeComplete ==
  tree.phase \in {"built", "thrown"} =>
    /\ tree.phase = "built"
    /\ Len(Visited(tree)) = Len(tree.categories) + 2
    /\ {Visited(tree)[i] : i \in 1..Len(Visited(tree))} = TreeNodes(tree)
    /\ \A c \in TreeNodes(tree) \ {ROOT} :
         IF Attachable(tree, c, Len(tree.categories) + 2)
         THEN tree.parent[c] = ParentId(tree, c)
         ELSE /\ tree.parent[c] = UndefinedId
              /\ \E k \in 1..Len(tree.children[ROOT]) : tree.children[ROOT][k] = c

\* A tree built from three categories: c1 and c2 refer to each other, c3 to
\* an id that is not listed; all three are children of ROOT.
C6_Witness ==
  /\ tree.phase = "built"
  /\ Len(tree.categories) = 3
  /\ ParentId(tree, "c1") = "c2" /\ ParentId(tree, "c2") = "c1" /\ ParentId(tree, "c3") = "cX"
  /\ {"c1", "c2", "c3"} \subseteq {tree.children[ROOT][k] : k \in 1..Len(tree.children[ROOT])}

RECURSIVE SumTo(_, _)
SumTo(seq, k) == IF k = 0 THEN 0 ELSE seq[k] + SumTo(seq, k - 1)

\* C7: every request of _fetchMany carries as offset the number of items
\* received before it; when the call returns, its result is the N items of the
\* remote collection, each once and in remote order; with a page size of 50
\* and 137 items it made three requests that returned 50, 50 and 37 items.
C7_FetchComplete ==
  /\ fetch.offset = Len(fetch.result)
  /\ \A i \in 1..Len(fetch.requests) : fetch.requests[i] = SumTo(fetch.pages, i - 1)
  /\ fetch.pc = "returned" =>
       /\ fetch.result = [i \in 1..fetch.n |-> i]
       /\ fetch.n = 137 /\ fetch.limit = 50 => fetch.pages = <<50, 50, 37>>

\* The call over 137 items with page size 50 has returned after three requests.
C7_Witness ==
  /\ fetch.pc = "returned"
  /\ fetch.n = 137 /\ fetch.limit = 50
  /\ Len(fetch.requests) = 3 /\ Len(fetch.result) = 137

\* C8: the secrets map importArticle writes on a re-sync has the secret ids of
\* the new content as keys; an id the entry's previous map held keeps the value
\* it had there, any other id is unrevealed; an id of the previous map that the
\* new content does not hold is not written.
C8_SecretsMerged ==
  sec.bound =>
    /\ DOMAIN sec.written = sec.content
    /\ \A id \in sec.content :
         sec.written[id] = IF id \in DOMAIN sec.old THEN sec.old[id] ELSE FALSE

\* An entry with A revealed and B unrevealed was re-synced with content that
\* holds only B: the map written holds only B, unrevealed.
C8_Witness ==
  /\ sec.bound
  /\ sec.old = [id \in {"A", "B"} |-> id = "A"]
  /\ sec.content = {"B"}
  /\ sec.written = [id \in {"B"} |-> FALSE]

\* C11: every build of the category tree from the same listing, the build
\* served from the cached map and the build over a map filled again included,
\* gives every node the parent and the ordered children the first build gave.
C11_TreeDeterministic ==
  tree.phase = "built" =>
    /\ tree.children = tree.first.children
    /\ tree.parent = tree.first.parent

\* A second build has ended over three categories of which two are siblings
\* under the third and one pair ties on position.
C11_Witness ==
  /\ tree.phase = "built" /\ tree.calls = 2
  /\ Len(tree.categories) = 3
  /\ Len(tree.children["c2"]) = 2

\* A player's click on a cross-link
PlayerClick == \E a \in Single : ClickLink(1, a, FALSE)

\* C12: a click on a cross-link opens the bound entry when there is one and
\* the user holds OBSERVER on it, and starts no import then; without a bound
\* entry the article is imported when, and only when, the user is a
\* Gamemaster; a player's click leaves the calls in flight, the cached world
\* and categories, the folders and the journal as they were.
C12_LinkGuard ==
  /\ [](click.result # "none" =>
          /\ click.result = "import" <=> (click.gm /\ click.entry = NoEntry)
          /\ click.result = "open" <=> (click.entry # NoEntry /\ click.observer)
          /\ click.entry # NoEntry /\ ~click.gm =>
                (click.observer <=> click.permission >= PermissionObserver))
  /\ [][PlayerClick => UNCHANGED <<world, cache, heap, folders, journal, nextId, proc>>]_vars

\* A player has clicked a cross-link to an article that has no entry, and
\* was refused.
C12_Witness ==
  /\ ~click.gm /\ click.entry = NoEntry /\ click.result = "denied"
  /\ \E i \in 1..Len(journal) : journal[i].permission = PermissionObserver

\* The permission of entry id in the journal js, 0 when it holds no such entry.
Kept(js, before, ids) ==
  \A i \in 1..Len(js) : \A j \in 1..Len(before) :
    js[i].id = before[j].id /\ js[i].id \notin ids => js[i].permission = before[j].permission

VisibilityDone == \A p \in Calls : proc[p].pc # "updatePermissions"

\* The entries a folder command has to update: those of the articles directly
\* in the category whose permission is on the wrong side of OBSERVER.
WrongSide(js, c, level) ==
  {js[i].id : i \in {k \in 1..Len(js) :
     /\ \E n \in 1..Len(browser.shelf[c]) : browser.shelf[c][n] = js[k].articleId
     /\ IF level = PermissionObserver THEN js[k].permission < PermissionObserver
        ELSE js[k].permission >= PermissionObserver}}

\* C13: a folder visibility command does not fail on an article without
\* entry; it sends at most one update, to exactly the entries of the articles
\* directly in the category whose default permission is on the wrong side of
\* OBSERVER; when it is through, every other entry has the permission it had.
C13_FolderVisibility ==
  vis.kind \in {"displayFolder", "hideFolder"} =>
    /\ ~vis.thrown
    /\ vis.calls <= 1
    /\ vis.targets = WrongSide(vis.before, vis.arg, vis.level)
    /\ VisibilityDone => Kept(journal, vis.before, vis.targets)

\* C14: an entry visibility command for an id the journal does not hold
\* throws and sends no update; for an id it holds it sends one update, and
\* when it is through that entry has the default permission OBSERVER (shown)
\* or NONE (hidden); every other entry has the permission it had.
C14_EntryVisibility ==
  vis.kind \in {"displayEntry", "hideEntry"} =>
    /\ vis.thrown <=> vis.entry \notin EntryIds(vis.before)
    /\ vis.thrown => vis.calls = 0 /\ Kept(journal, vis.before, {})
    /\ vis.level = IF vis.kind = "displayEntry" THEN PermissionObserver ELSE PermissionNone
    /\ ~vis.thrown /\ VisibilityDone =>
         /\ vis.calls = 1
         /\ Kept(journal, vis.before, {vis.entry})
         /\ \A i \in 1..Len(journal) : journal[i].id = vis.entry => journal[i].permission = vis.level

\* An entry was shown while another entry existed.
C14_Witness ==
  /\ vis.kind = "displayEntry" /\ ~vis.thrown /\ VisibilityDone
  /\ Len(journal) >= 2
  /\ \E i \in 1..Len(journal) : journal[i].id = vis.entry /\ journal[i].permission = PermissionObserver

\* An entry visibility command has thrown: the entry of its button was
\* deleted after the browser was rendered.
C14_NotFound == vis.kind \in {"displayEntry", "hideEntry"} /\ vis.thrown

\* C15: getWorld(id), called with a token set, sends a request exactly when
\* no world is cached or the cached world has another id; served from the
\* cache it leaves the cached world in place, and after a request that
\* succeeded the cached world is the world of id.
C15_WorldMemoised ==
  api.last.op = "getWorld" /\ api.last.token =>
    /\ api.last.outcome # "cached" <=> (api.last.cached = "none" \/ api.last.cached # api.last.arg)
    /\ api.last.outcome = "cached" => api.world = api.last.cached
    /\ api.last.outcome = "ok" => api.world = api.last.arg

\* C16: a call made while the client has no token sends no request: the
\* methods over _fetch and _fetchV2 end with the authentication error,
\* connect returns, and getWorlds gives the empty list.
C16_NoTokenNoRequest ==
  api.last.op # "none" /\ ~api.last.token =>
    /\ api.last.outcome \notin {"sent", "ok", "failed"}
    /\ api.last.op \in {"getArticle", "_fetchManyV2"} => api.last.outcome = "authError"
    /\ api.last.op = "connect" => api.last.outcome = "returned"
    /\ api.last.op = "getWorlds" => api.last.outcome = "empty"

\* The map holds the root, the uncategorized node under the root, and every
\* category of the listing.
CompleteMap ==
  /\ {ROOT, UNCATEGORIZED} \cup {listing[i].id : i \in 1..Len(listing)} \subseteq DOMAIN cache
  /\ \E i \in 1..Len(heap[cache[ROOT]][ROOT].children) :
       heap[cache[ROOT]][ROOT].children[i] = UNCATEGORIZED

\* C17: a getCategories call that has returned has returned a complete map,
\* and between calls the map is empty (the next call rebuilds it) or
\* complete, also after a rebuild whose category request failed.
C17_NeverPartial ==
  /\ \A p \in Calls : DoneOk(p, "categories") => CompleteMap
  /\ Quiet => DOMAIN cache = {} \/ CompleteMap

\* The categories of the map at or below c, by their parent references.
RECURSIVE Below(_, _, _)
Below(c, d, fuel) ==
  \/ d = c
  \/ /\ fuel > 0
     /\ d \in DOMAIN cache
     /\ heap[cache[d]][d].parent \in DOMAIN cache
     /\ Below(c, heap[cache[d]][d].parent, fuel - 1)

Subtree(c) == {d \in DOMAIN cache : Below(c, d, MaxCategories)}

Elements(q) == {q[i] : i \in 1..Len(q)}
Distinct(q) == \A i, j \in 1..Len(q) : q[i] = q[j] => i = j

C19_SyncAllCreatesNothing ==
  batch.only /\ batch.state = "running" => nextId = batch.first

\* C20: an importArticle call changes no journal entry and no folder up to
\* and including its article request; when that request fails the call ends
\* at once with the error _fetch threw, and no request is made again.
C20_FetchFailurePropagates ==
  [][\A p \in Calls :
       /\ proc'[p].op = "import"
            /\ proc'[p].pc \in {"fetchWorld", "fetchCategories", "fetchArticle"}
          => UNCHANGED <<journal, folders, nextId>>
       /\ proc[p].op = "import" /\ proc[p].pc = "fetchArticle" /\ RequestFails(p)
          => /\ proc'[p].pc = "done"
             /\ proc'[p].outcome = Err("HttpError")
             /\ proc'[p].article = NoArticle
             /\ UNCHANGED <<journal, folders, nextId>>]_vars

\* An importArticle call has ended with the error of its article request
\* (the categories were there), while the journal held an entry.
C20_Witness ==
  /\ proc[1].pc = "done" /\ proc[1].op = "import" /\ proc[1].outcome = Err("HttpError")
  /\ "c1" \in DOMAIN cache
  /\ Len(journal) >= 1 /\ Len(folders) >= 1

\* C21: at most one folder carries a category id in every reachable state,
\* also when importArticle runs for different articles interleave at their
\* awaits, and no step takes a folder away.
C21_OneFolderPerCategory ==
  /\ [](\A c \in Nodes : Cardinality(FolderIds(c)) <= 1)
  /\ [][\A i \in 1..Len(folders) : i <= Len(folders') /\ folders'[i].id = folders[i].id]_vars

\* The object the map holds for category c.
Node(c) == heap[cache[c]][c]

Count(q, x) == Cardinality({i \in 1..Len(q) : q[i] = x})

\* Following the parent references from c reaches the root within fuel steps.
RECURSIVE ReachesRoot(_, _)
ReachesRoot(c, fuel) ==
  \/ c = ROOT
  \/ /\ fuel > 0
     /\ c \in DOMAIN cache
     /\ ReachesRoot(Node(c).parent, fuel - 1)

\* The map is a tree: every category but the root has a parent of the map,
\* is once in the children of that parent and in no other children list,
\* and its parent references lead to the root.
IsTree ==
  \A c \in DOMAIN cache \ {ROOT} :
    /\ Node(c).parent \in DOMAIN cache
    /\ \A d \in DOMAIN cache :
         Count(Node(d).children, c) = IF d = Node(c).parent THEN 1 ELSE 0
    /\ ReachesRoot(c, Cardinality(DOMAIN cache))

\* C22: the category map a getCategories call returns is a tree, whatever
\* the children lists of the remote categories are.
C22_ResolvedTree == \A p \in Calls : DoneOk(p, "categories") => IsTree

C24_UncategorizedLast ==
  tree.phase = "built" =>
    /\ tree.children[ROOT] # <<>>
    /\ tree.children[ROOT][Len(tree.children[ROOT])] = UNCATEGORIZED

\* the raw category at position i hangs, through parent_category ids, under a
\* category without parent
RECURSIVE Rooted(_, _, _)
Rooted(raw, i, fuel) ==
  \/ raw[i].parent = NoCategory
  \/ /\ fuel > 0
     /\ \E j \in 1..Len(raw) : raw[j].id = raw[i].parent /\ Rooted(raw, j, fuel - 1)

\* C25: building the category tree terminates for every finite list, also
\* with self-referencing or cyclic parent references; the build fails only
\* with a nesting beyond the guard, where it throws instead of returning a
\* tree, and a tree that is returned holds every category that hangs under a
\* top-level one.
C25_BuildTerminates ==
  /\ [](tree.phase # "thrown")
  /\ [](branch.pc = "thrown" => Len(branch.stack) > SecurityGuard)
  /\ [](Len(branch.stack) <= SecurityGuard + 1)
  /\ [](branch.pc = "built" =>
          \A i \in 1..Len(branch.raw) :
            Rooted(branch.raw, i, Len(branch.raw)) => branch.raw[i].id \in branch.set)
  /\ (branch.pc = "raw" ~> branch.pc \in {"built", "thrown"})

\* a list that names one id twice, the second under the first: the calls nest
\* until the guard throws
C25_Witness ==
  /\ branch.pc = "thrown"
  /\ Len(branch.stack) = SecurityGuard + 1
  /\ \E i, j \in 1..Len(branch.raw) :
       i # j /\ branch.raw[i].id = branch.raw[j].id /\ branch.raw[j].parent = branch.raw[j].id

\* C26: _fetchMany and _fetchManyV2 make no request after a page with fewer
\* than limit items; a call that returns has made floor(N / limit) + 1
\* requests, the last of them answered with the N mod limit items that were
\* left (none when N is a multiple of limit), and its result is the N items.
C26_RequestCount ==
  /\ \A i \in 1..(Len(fetch.pages) - 1) : fetch.pages[i] = fetch.limit
  /\ fetch.pc \in {"fetching", "fetchingV2"} =>
       \A i \in 1..Len(fetch.pages) : fetch.pages[i] = fetch.limit
  /\ fetch.pc = "returned" =>
       /\ Len(fetch.requests) = (fetch.n \div fetch.limit) + 1
       /\ fetch.pages[Len(fetch.pages)] = fetch.n % fetch.limit
       /\ \A i \in 1..Len(fetch.requests) : fetch.requests[i] = (i - 1) * fetch.limit
       /\ fetch.result = [i \in 1..fetch.n |-> i]

\* Two whole pages: a third request is made and answered with no item.
C26_Witness ==
  /\ fetch.pc = "returned"
  /\ fetch.n = 2 * fetch.limit
  /\ fetch.pages = <<fetch.limit, fetch.limit, 0>>
  /\ Len(fetch.result) = fetch.n

\* the listed categories that the build has allocated to a parent
Allocated(t, p) ==
  {k \in 1..Len(t.children[p]) :
     t.children[p][k] # UNCATEGORIZED /\ t.parent[t.children[p][k]] = p}

\* C27: in every children list of the built tree the siblings stand by
\* position ascending when the positions are numeric, by title otherwise, and
\* of two siblings with the same numeric position the one with the smaller
\* title stands first.
C27_SiblingOrder ==
  tree.phase = "built" =>
    \A p \in DOMAIN tree.children :
      \A i, j \in Allocated(tree, p) :
        i < j =>
          LET a == tree.children[p][i]
              b == tree.children[p][j]
          IN IF tree.numeric
             THEN \/ ListedAt(tree, a).position < ListedAt(tree, b).position
                  \/ /\ ListedAt(tree, a).position = ListedAt(tree, b).position
                     /\ CategoryTitle[a] < CategoryTitle[b]
             ELSE CategoryTitle[a] < CategoryTitle[b]

\* the cached map holds the categories of a listing
Built == DOMAIN cache \ {ROOT, UNCATEGORIZED} # {}

C29_UpdateFrame ==
  [][\A p \in Calls :
       (proc[p].op = "import" /\ FindEntry(journal, proc[p].arg) # NoEntry)
         => /\ folders' = folders
            /\ Len(journal') = Len(journal)
            /\ \A i \in 1..Len(journal) :
                 IF journal[i].id = FindEntry(journal, proc[p].arg)
                 THEN /\ journal'[i].id = journal[i].id
                      /\ journal'[i].folder = journal[i].folder
                      /\ journal'[i].permission = journal[i].permission
                 ELSE journal'[i] = journal[i]]_vars

\* An entry shown to the players was imported again after an edit of its
\* article: it has the new pages and is still shown.
C29_Witness ==
  /\ DoneOk(1, "import")
  /\ Len(journal) >= 2
  /\ \E i \in 1..Len(journal) :
       /\ journal[i].id = proc[1].outcome.value
       /\ journal[i].permission = PermissionObserver
       /\ journal[i].folder # NullFolder
       /\ journal[i].pages = MaxRevision

\* C30: with no request of the client in flight, the worldId is the id of the
\* cached world whenever a world is cached, and after a getWorld whose request
\* failed the worldId and the cached world are those from before the call.
C30_WorldConsistent ==
  api.pending = "none" =>
    /\ api.world # "none" => api.worldId = api.world
    /\ (api.last.op = "getWorld" /\ api.last.outcome = "failed") =>
         /\ api.worldId = api.last.selected
         /\ api.world = api.last.cached

====
